---------------------------- MODULE Spec2Model ----------------------------
(***************************************************************************)
(* Model of the training / evaluation engine of the race-car repository    *)
(* (src/rc_nn_tools.py, class NNTools, driven by src/av_train_test.py).    *)
(*                                                                         *)
(* Two specifications share the session variables:                         *)
(*   Spec      a train-mode session: NNTools(types=[signal,'train'])       *)
(*             followed by one train(trainset, devset) call;               *)
(*   SpecTest  a test-mode session: NNTools(types=[signal,'test'])         *)
(*             followed by one test(testset, display) call.                *)
(*                                                                         *)
(* Floats are modelled exactly, as rationals [num, den].  A batch loss is  *)
(* a non-negative number in abstract integer units.  Wall-clock times      *)
(* (timeit) are left out: no state of the engine depends on them.          *)
(***************************************************************************)
EXTENDS Integers, Sequences, FiniteSets

VARIABLES
    pc,              \* position of the driver / of the running method
    type,            \* self.type: the session's signal
    batch_size,      \* self.batch_size
    epochs,          \* self.epochs (train mode)
    trainLen,        \* len(trainset): examples in the training manifest
    log,             \* output/result.csv: whether it exists, and its lines
    saved,           \* checkpoint paths written by torch.save, in order
    epoch,           \* train: loop variable of the epoch loop
    batch,           \* train: the example counter `batch`
    running_loss,    \* train: running_loss
    epoch_loss,      \* train: epoch_loss
    accuracy,        \* train: accuracy (last validation accuracy)
    total_loss,      \* train: total_loss list
    dev_accuracy,    \* train: dev_accuracy list
    remaining,       \* train: examples the dataloader has not yet yielded
    steps,           \* history: the iterations of the current epoch's batch loop
    unreported,      \* history: batch losses of the previous epoch no line reported
    failedEpoch,     \* history: epoch in which a batch-loop step raised (0: none)
    testset,         \* test: the manifest, a sequence of examples
    outs,            \* test: the model's output per example, in halves
    display,         \* test: the display flag
    count,           \* test: count
    total_accuracy,  \* test: total_accuracy
    pos,             \* test: examples the dataloader has yielded so far
    visited,         \* history: indices of the examples in the order visited
    shown,           \* test: lines printed when display is set
    result           \* test: the returned value

trainVars == <<epochs, trainLen, log, saved, epoch, batch, running_loss, epoch_loss,
               accuracy, total_loss, dev_accuracy, remaining, steps, unreported,
               failedEpoch>>
testVars == <<testset, outs, display, count, total_accuracy, pos, visited, shown, result>>
vars == <<pc, type, batch_size, trainVars, testVars>>

---------------------------------------------------------------------------
(* Bounds and input sets *)

MaxEpochs == 2
MaxBatches == 3
MaxDev == 1
MaxTest == 3
MaxTestBatch == 3

Signals == {"servo", "motor"}
BatchSizes == {50, 60, 100}
Losses == {0, 1}
\* training manifests: every multiple of half a batch, up to MaxBatches batches
TrainLens(b) == {(k * b) \div 2 : k \in 1..(2 * MaxBatches)}
\* an example's labels, and model outputs in halves (9 is 4.5, 10 is 5.0, 11 is 5.5)
Examples == {[servo |-> 4, motor |-> 6], [servo |-> 6, motor |-> 4]}
OutHalves == {9, 10, 11}
\* batch sizes of a test session: the small ones, and one reporting interval
TestBatchSizes == (1..MaxTestBatch) \cup {100}
\* the validation manifest of a training session
DevSet == [i \in 1..MaxDev |-> [servo |-> 4, motor |-> 6]]
\* what result.csv may hold before the session
StaleLine == [epoch |-> 9, accuracy |-> 0, signal |-> "Servo", best |-> 1]
File(ls) == [exists |-> TRUE, lines |-> ls]
NoFile == [exists |-> FALSE, lines |-> <<>>]
\* test has not returned yet
NoResult == [num |-> -1, den |-> 1]

---------------------------------------------------------------------------
(* Program constants *)

ReportInterval == 100
LossDivisor == 100
TestReportInterval == 100
Tolerance == 1

---------------------------------------------------------------------------
(* Numbers *)

Min(a, b) == IF a <= b THEN a ELSE b
Abs(x) == IF x < 0 THEN -x ELSE x
Rat(n, d) == [num |-> n, den |-> d]
RatEq(a, b) == a.num * b.den = b.num * a.den
RatGt(a, b) == a.num * b.den > b.num * a.den

RECURSIVE Pow10(_)
Pow10(d) == IF d = 0 THEN 1 ELSE 10 * Pow10(d - 1)

\* '%2.7f', '{: 2.2f}', '%2.0f': the value in units of 10^-digits, rounded to
\* nearest, an exact tie going to the even neighbour
FormatFixed(r, digits) ==
    LET scaled == r.num * Pow10(digits)
        q == scaled \div r.den
        rem == scaled % r.den
    IN IF 2 * rem < r.den THEN q
       ELSE IF 2 * rem > r.den THEN q + 1
       ELSE IF q % 2 = 0 THEN q ELSE q + 1

\* torch.round on a value given in halves: half to even
Round(h) ==
    LET q == h \div 2
    IN IF h % 2 = 0 THEN q
       ELSE IF q % 2 = 0 THEN q ELSE q + 1


---------------------------------------------------------------------------
(* NNTools: helpers *)

\* set_io: the target is the label of the session's signal (with or without cuda)
SetIo(t, example) == IF t = "servo" THEN example.servo ELSE example.motor

\* set_output opening result.csv for append without removing it first
SetOutputKeeping(file) == File(file.lines)

\* set_output: an existing result.csv is removed and created again, a missing
\* one is created: the log is empty either way
SetOutput(file) == IF file.exists THEN File(<<>>) ELSE File(<<>>)

\* lines 258-261 of test, for the examples lo..hi of one batch: the number of
\* examples whose target is within the tolerance of the rounded output
BatchCorrect(t, set, out, lo, hi) ==
    Cardinality({i \in lo..hi : Abs(SetIo(t, set[i]) - Round(out[i])) <= Tolerance})

\* test(devset) as train calls it (display off): the batch loop, then the return
RECURSIVE TestLoop(_, _, _, _, _, _)
TestLoop(t, set, out, b, done, total) ==
    IF done >= Len(set) THEN Rat(total * 100, Len(set))
    ELSE LET hi == Min(done + b, Len(set))
         IN TestLoop(t, set, out, b, hi, total + BatchCorrect(t, set, out, done + 1, hi))

Test(t, set, out, b) == TestLoop(t, set, out, b, 0, 0)

\* np.argmax as a 1-based position: the first position holding the maximum
RECURSIVE ArgMaxLastFrom(_, _, _)
ArgMaxLastFrom(seq, i, best) ==
    IF i > Len(seq) THEN best
    ELSE ArgMaxLastFrom(seq, i + 1, IF RatGt(seq[best], seq[i]) THEN best ELSE i)

RECURSIVE ArgMaxFrom(_, _, _)
ArgMaxFrom(seq, i, best) ==
    IF i > Len(seq) THEN best
    ELSE ArgMaxFrom(seq, i + 1, IF RatGt(seq[i], seq[best]) THEN i ELSE best)

ArgMax(seq) == ArgMaxFrom(seq, 2, 1) - 1

\* the path train hands to save_model for an epoch: the text between
\* 'output/models/' and '_model_epoch_', and the epoch number
ModelPath(t, e) == [signal |-> "servo", epoch |-> e]

\* save_model: both branches write the state dict to mfile
SaveModel(t, files, mfile) == Append(files, mfile)

\* plot_result, lines 350-357: the line of result.csv
LogContent(t, e, accs) ==
    [epoch |-> e,
     accuracy |-> FormatFixed(accs[e], 2),
     signal |-> IF t = "servo" THEN "Servo" ELSE "Motor",
     best |-> ArgMax(accs) + 1]

\* plot_result, lines 360-361: open(self.log, 'a') and write
WriteLogTruncating(file, content) == File(<<content>>)

WriteLog(file, content) == File(Append(file.lines, content))

\* plot_result: the two curves are redrawn from the lists (not state), then the
\* line is appended to the log
PlotResult(t, e, losses, accs, file) == WriteLog(file, LogContent(t, e, accs))

\* the progress line of train, lines 190-192
ProgressLine(e, b, running, acc) ==
    [epoch |-> e,
     batch |-> b,
     loss |-> FormatFixed(Rat(running, LossDivisor), 7),
     dev |-> FormatFixed(acc, 0)]

---------------------------------------------------------------------------
(* A train-mode session *)

Init ==
    /\ pc = "new"
    /\ type \in Signals
    /\ batch_size \in BatchSizes
    /\ epochs \in 1..MaxEpochs
    /\ trainLen \in TrainLens(batch_size)
    /\ log \in {NoFile, File(<<>>), File(<<StaleLine>>)}
    /\ saved = <<>>
    /\ epoch = 0
    /\ batch = 0
    /\ running_loss = 0
    /\ epoch_loss = Rat(0, 1)
    /\ accuracy = Rat(0, 1)
    /\ total_loss = <<>>
    /\ dev_accuracy = <<>>
    /\ remaining = 0
    /\ steps = <<>>
    /\ unreported = 0
    /\ failedEpoch = 0
    /\ testset = <<>>
    /\ outs = <<>>
    /\ display = FALSE
    /\ count = 0
    /\ total_accuracy = 0
    /\ pos = 0
    /\ visited = <<>>
    /\ shown = <<>>
    /\ result = NoResult

\* NNTools(settings, [signal, 'train']): the settings are read, the model is
\* built and set_output prepares the log
Construct ==
    /\ pc = "new"
    /\ pc' = "ready"
    /\ log' = SetOutput(log)
    /\ UNCHANGED <<type, batch_size, epochs, trainLen, saved, epoch, batch, running_loss,
                   epoch_loss, accuracy, total_loss, dev_accuracy, remaining, steps,
                   unreported, failedEpoch, testVars>>

\* train, lines 138-159: the manifest is read, the optimizer and dataloader are
\* set up and the result holders are initialised
TrainBegin ==
    /\ pc = "ready"
    /\ pc' = "epoch"
    /\ total_loss' = <<>>
    /\ dev_accuracy' = <<>>
    /\ epoch_loss' = Rat(0, 1)
    /\ accuracy' = Rat(0, 1)
    /\ UNCHANGED <<type, batch_size, epochs, trainLen, log, saved, epoch, batch,
                   running_loss, remaining, steps, unreported, failedEpoch, testVars>>

\* the sum of the batch losses after the last progress line of a finished loop
RECURSIVE TailSum(_)
TailSum(s) ==
    IF s = <<>> \/ s[Len(s)].printed # <<>> THEN 0
    ELSE s[Len(s)].loss + TailSum(SubSeq(s, 1, Len(s) - 1))

\* train, lines 162-167, with running_loss left as the previous epoch left it
EpochStartKeepingLoss ==
    /\ pc = "epoch"
    /\ epoch < epochs
    /\ pc' = "batch"
    /\ epoch' = epoch + 1
    /\ batch' = 0
    /\ running_loss' = running_loss
    /\ remaining' = trainLen
    /\ steps' = <<>>
    /\ unreported' = TailSum(steps)
    /\ UNCHANGED <<type, batch_size, epochs, trainLen, log, saved, epoch_loss, accuracy,
                   total_loss, dev_accuracy, failedEpoch, testVars>>

\* train, lines 162-167: the next epoch begins, the counter and the running
\* loss are reset and the dataloader starts a new pass
EpochStart ==
    /\ pc = "epoch"
    /\ epoch < epochs
    /\ pc' = "batch"
    /\ epoch' = epoch + 1
    /\ batch' = 0
    /\ running_loss' = 0
    /\ remaining' = trainLen
    /\ steps' = <<>>
    /\ unreported' = TailSum(steps)
    /\ UNCHANGED <<type, batch_size, epochs, trainLen, log, saved, epoch_loss, accuracy,
                   total_loss, dev_accuracy, failedEpoch, testVars>>

\* train, lines 169-196: one iteration of the batch loop.  The dataloader
\* yields the next batch (short when fewer than batch_size examples are left),
\* the optimizer steps, and the loss of the batch is any value of Losses.
BatchStep ==
    /\ pc = "batch"
    /\ remaining > 0
    /\ \E loss \in Losses :
        LET size == Min(batch_size, remaining)
            nbatch == batch + batch_size
            nrunning == running_loss + loss
            report == nbatch % ReportInterval = 0
        IN /\ batch' = nbatch
           /\ remaining' = remaining - size
           /\ running_loss' = IF report THEN 0 ELSE nrunning
           /\ epoch_loss' = IF report THEN Rat(nrunning, LossDivisor) ELSE epoch_loss
           /\ steps' = Append(steps,
                  [size |-> size,
                   loss |-> loss,
                   printed |-> IF report
                               THEN <<ProgressLine(epoch, nbatch, nrunning, accuracy)>>
                               ELSE <<>>])
    /\ UNCHANGED <<pc, type, batch_size, epochs, trainLen, log, saved, epoch, accuracy,
                   total_loss, dev_accuracy, unreported, failedEpoch, testVars>>

\* a step of the batch loop raises and something catches it: the loop goes on
BatchFailSwallowed ==
    /\ pc = "batch"
    /\ remaining > 0
    /\ failedEpoch' = epoch
    /\ UNCHANGED <<pc, type, batch_size, epochs, trainLen, log, saved, epoch, batch,
                   running_loss, epoch_loss, accuracy, total_loss, dev_accuracy,
                   remaining, steps, unreported, testVars>>

\* train, lines 169-185: a step of the batch loop raises (the dataloader, the
\* transfer, the forward or backward pass, the optimizer); train has no
\* handler, so the exception leaves the call
BatchFail ==
    /\ pc = "batch"
    /\ remaining > 0
    /\ pc' = "aborted"
    /\ failedEpoch' = epoch
    /\ UNCHANGED <<type, batch_size, epochs, trainLen, log, saved, epoch, batch,
                   running_loss, epoch_loss, accuracy, total_loss, dev_accuracy,
                   remaining, steps, unreported, testVars>>

\* train, lines 198-208, recording the running loss in place of epoch_loss
EpochEndRecordingRunning ==
    /\ pc = "batch"
    /\ remaining = 0
    /\ \E out \in [1..Len(DevSet) -> OutHalves] :
        LET acc == Test(type, DevSet, out, batch_size)
            accs == Append(dev_accuracy, acc)
            losses == Append(total_loss, Rat(running_loss, LossDivisor))
        IN /\ accuracy' = acc
           /\ dev_accuracy' = accs
           /\ total_loss' = losses
           /\ saved' = SaveModel(type, saved, ModelPath(type, epoch))
           /\ log' = PlotResult(type, epoch, losses, accs, log)
    /\ pc' = "epoch"
    /\ UNCHANGED <<type, batch_size, epochs, trainLen, epoch, batch, running_loss,
                   epoch_loss, remaining, steps, unreported, failedEpoch, testVars>>

\* train, lines 198-208: the dataloader is exhausted; the model is tested on
\* the validation manifest (its outputs there are any values of OutHalves),
\* the epoch's accuracy and loss are appended, the checkpoint is saved and
\* plot_result writes the log line
EpochEnd ==
    /\ pc = "batch"
    /\ remaining = 0
    /\ \E out \in [1..Len(DevSet) -> OutHalves] :
        LET acc == Test(type, DevSet, out, batch_size)
            accs == Append(dev_accuracy, acc)
            losses == Append(total_loss, epoch_loss)
        IN /\ accuracy' = acc
           /\ dev_accuracy' = accs
           /\ total_loss' = losses
           /\ saved' = SaveModel(type, saved, ModelPath(type, epoch))
           /\ log' = PlotResult(type, epoch, losses, accs, log)
    /\ pc' = "epoch"
    /\ UNCHANGED <<type, batch_size, epochs, trainLen, epoch, batch, running_loss,
                   epoch_loss, remaining, steps, unreported, failedEpoch, testVars>>

\* train, lines 210-216: the epoch loop is over, the finish message is printed
\* and train returns
TrainReturn ==
    /\ pc = "epoch"
    /\ epoch = epochs
    /\ pc' = "done"
    /\ UNCHANGED <<type, batch_size, trainVars, testVars>>

Next ==
    \/ Construct
    \/ TrainBegin
    \/ EpochStart
    \/ BatchStep
    \/ BatchFail
    \/ EpochEnd
    \/ TrainReturn

Spec == Init /\ [][Next]_vars

---------------------------------------------------------------------------
(* A test-mode session *)

\* the sequence lo, lo+1, ..., hi
Range(lo, hi) == [i \in 1..(hi - lo + 1) |-> lo + i - 1]

InitTest ==
    /\ pc = "new"
    /\ type \in Signals
    /\ batch_size \in TestBatchSizes
    /\ testset \in UNION {[1..n -> Examples] : n \in 1..MaxTest}
    /\ outs \in [1..Len(testset) -> OutHalves]
    /\ display \in BOOLEAN
    /\ count = 0
    /\ total_accuracy = 0
    /\ pos = 0
    /\ visited = <<>>
    /\ shown = <<>>
    /\ result = NoResult
    /\ epochs = 0
    /\ trainLen = 0
    /\ log = NoFile
    /\ saved = <<>>
    /\ epoch = 0
    /\ batch = 0
    /\ running_loss = 0
    /\ epoch_loss = Rat(0, 1)
    /\ accuracy = Rat(0, 1)
    /\ total_loss = <<>>
    /\ dev_accuracy = <<>>
    /\ remaining = 0
    /\ steps = <<>>
    /\ unreported = 0
    /\ failedEpoch = 0

\* NNTools(settings, [signal, 'test']): the settings are read, the model is
\* built and load_model restores its weights; set_output is not called
ConstructTest ==
    /\ pc = "new"
    /\ pc' = "loaded"
    /\ UNCHANGED <<type, batch_size, trainVars, testVars>>

\* test, lines 233-248: the manifest is read, the dataloader (shuffle off) is
\* set up and the counters are initialised
TestBegin ==
    /\ pc = "loaded"
    /\ pc' = "testing"
    /\ total_accuracy' = 0
    /\ count' = 0
    /\ pos' = 0
    /\ UNCHANGED <<type, batch_size, trainVars, testset, outs, display, visited, shown,
                   result>>

\* test, lines 250-265: one iteration of the loop over the dataloader, which
\* yields the next batch_size examples in stored order (fewer at the end)
TestBatch ==
    /\ pc = "testing"
    /\ pos < Len(testset)
    /\ LET hi == Min(pos + batch_size, Len(testset))
           ncount == count + batch_size
           ntotal == total_accuracy + BatchCorrect(type, testset, outs, pos + 1, hi)
       IN /\ count' = ncount
          /\ total_accuracy' = ntotal
          /\ pos' = hi
          /\ visited' = visited \o Range(pos + 1, hi)
          /\ shown' = IF display /\ ncount % TestReportInterval = 0
                      THEN Append(shown, [kind |-> "progress", count |-> ncount,
                               accuracy |-> FormatFixed(Rat(ntotal * 100, ncount), 2)])
                      ELSE shown
    /\ UNCHANGED <<pc, type, batch_size, trainVars, testset, outs, display, result>>

\* test, lines 267-270, dividing by the counter in place of len(testset)
TestReturnByCount ==
    /\ pc = "testing"
    /\ pos = Len(testset)
    /\ pc' = "tested"
    /\ result' = Rat(total_accuracy * 100, count)
    /\ shown' = IF display
                THEN Append(shown, [kind |-> "total", count |-> Len(testset),
                         accuracy |-> FormatFixed(Rat(total_accuracy * 100, count), 2)])
                ELSE shown
    /\ UNCHANGED <<type, batch_size, trainVars, testset, outs, display, count,
                   total_accuracy, pos, visited>>

\* test, lines 267-270: the dataloader is exhausted; the total is printed when
\* display is set, and the accuracy percentage is returned
TestReturn ==
    /\ pc = "testing"
    /\ pos = Len(testset)
    /\ pc' = "tested"
    /\ result' = Rat(total_accuracy * 100, Len(testset))
    /\ shown' = IF display
                THEN Append(shown, [kind |-> "total", count |-> Len(testset),
                         accuracy |-> FormatFixed(Rat(total_accuracy * 100, Len(testset)), 2)])
                ELSE shown
    /\ UNCHANGED <<type, batch_size, trainVars, testset, outs, display, count,
                   total_accuracy, pos, visited>>

NextTest ==
    \/ ConstructTest
    \/ TestBegin
    \/ TestBatch
    \/ TestReturn

SpecTest == InitTest /\ [][NextTest]_vars

---------------------------------------------------------------------------
(* Reading the history of an epoch's batch loop *)

\* examples the dataloader had really yielded after iteration k
RECURSIVE ProcessedUpTo(_, _)
ProcessedUpTo(s, k) == IF k = 0 THEN 0 ELSE s[k].size + ProcessedUpTo(s, k - 1)

\* the last iteration before k that printed a progress line (0: none)
RECURSIVE LastLineBefore(_, _)
LastLineBefore(s, k) ==
    IF k <= 1 THEN 0
    ELSE IF s[k - 1].printed # <<>> THEN k - 1 ELSE LastLineBefore(s, k - 1)

\* the last iteration that printed a progress line (0: none)
LastLine(s) == LastLineBefore(s, Len(s) + 1)

RECURSIVE SumLoss(_, _, _)
SumLoss(s, lo, hi) == IF lo > hi THEN 0 ELSE s[hi].loss + SumLoss(s, lo, hi - 1)

\* the batch losses, and the number of batches, of the interval that ends with
\* iteration k: those after the previous progress line of the epoch, or from
\* the start of the epoch
IntervalSum(s, k) == SumLoss(s, LastLineBefore(s, k) + 1, k)
IntervalCount(s, k) == k - LastLineBefore(s, k)

Printing(s) == {k \in 1..Len(s) : s[k].printed # <<>>}

---------------------------------------------------------------------------
(* Claims *)

\* C1: a train call that returns normally has appended exactly `epochs` loss
\* values and `epochs` validation accuracies, has written exactly `epochs`
\* checkpoints, one per epoch index 1..epochs, each to a path of its own, and
\* has left the log with exactly `epochs` lines.
C1_CompletedTrain ==
    pc = "done" =>
        /\ Len(total_loss) = epochs
        /\ Len(dev_accuracy) = epochs
        /\ Len(saved) = epochs
        /\ \A n \in 1..epochs : saved[n].epoch = n
        /\ Cardinality({saved[n] : n \in 1..Len(saved)}) = epochs
        /\ Len(log.lines) = epochs

C1_Witness == pc = "done" /\ epochs > 1 /\ trainLen > batch_size

\* C2: test visits every example of the manifest exactly once, in stored
\* order, also when the last batch is short, and returns 100 * c / N, where N
\* is the number of examples and c the number of examples whose label (the
\* session's signal) differs from the rounded output by at most 1.
C2_Correct ==
    Cardinality({i \in 1..Len(testset) :
        LET label == IF type = "servo" THEN testset[i].servo ELSE testset[i].motor
        IN label - Round(outs[i]) \in {-1, 0, 1}})

C2_TestResult ==
    /\ pc \in {"testing", "tested"} => visited = Range(1, pos)
    /\ pc = "tested" =>
        /\ pos = Len(testset)
        /\ result.den = Len(testset)
        /\ result.num = 100 * C2_Correct

C2_Witness ==
    /\ pc = "tested"
    /\ batch_size = 2
    /\ Len(testset) = 3
    /\ C2_Correct = 2

\* C3: the best-epoch index in the log line of every epoch n is the smallest
\* index i of 1..n such that no epoch of 1..n has a strictly greater
\* validation accuracy than epoch i.
C3_IsBest(i, n) == \A j \in 1..n : ~RatGt(dev_accuracy[j], dev_accuracy[i])

C3_BestEpoch ==
    pc # "new" =>
        \A n \in 1..Len(log.lines) :
            LET b == log.lines[n].best
            IN /\ log.lines[n].epoch = n
               /\ b \in 1..n
               /\ C3_IsBest(b, n)
               /\ \A i \in 1..(b - 1) : ~C3_IsBest(i, n)

C3_Witness ==
    /\ pc = "done"
    /\ Len(log.lines) = 2
    /\ RatEq(dev_accuracy[1], dev_accuracy[2])
    /\ log.lines[2].best = 1

\* C4: from the construction of the train-mode session on, the log holds
\* exactly one line per completed epoch: it is empty after construction, a
\* step changes it only by appending one line as an epoch completes, and no
\* line already written is changed or removed.
C4_LogPerEpoch ==
    /\ [](pc # "new" => log.exists /\ Len(log.lines) = Len(dev_accuracy))
    /\ [][pc # "new" =>
            \/ log' = log
            \/ /\ Len(dev_accuracy') = Len(dev_accuracy) + 1
               /\ Len(log'.lines) = Len(log.lines) + 1
               /\ SubSeq(log'.lines, 1, Len(log.lines)) = log.lines]_vars

C4_Witness == pc = "epoch" /\ epoch = 2 /\ Len(log.lines) = 2

\* C5: the checkpoint written at the end of epoch N is named
\* <signal>_model_epoch_<N>, <signal> being the session's own signal.
C5_OwnSignalName ==
    \A n \in 1..Len(saved) : saved[n] = [signal |-> type, epoch |-> n]

\* C6: when a step of the batch loop of epoch n fails, train aborts without
\* processing further batches; no epoch record, checkpoint or log line exists
\* for epoch n or a later epoch, and those of epochs 1..n-1 are untouched.
C6_AbortedEpoch ==
    /\ [](failedEpoch # 0 =>
            /\ pc = "aborted"
            /\ Len(total_loss) = failedEpoch - 1
            /\ Len(dev_accuracy) = failedEpoch - 1
            /\ Len(saved) = failedEpoch - 1
            /\ Len(log.lines) = failedEpoch - 1
            /\ \A n \in 1..Len(saved) : saved[n].epoch < failedEpoch
            /\ \A n \in 1..Len(log.lines) : log.lines[n].epoch < failedEpoch)
    /\ [][failedEpoch' # 0 =>
            /\ steps' = steps
            /\ remaining' = remaining
            /\ total_loss' = total_loss
            /\ dev_accuracy' = dev_accuracy
            /\ saved' = saved
            /\ log' = log]_vars

C6_Witness ==
    /\ pc = "aborted"
    /\ failedEpoch = 2
    /\ Len(steps) = 1
    /\ Len(saved) = 1

\* C7: within an epoch a progress line is printed in exactly those iterations
\* in which the number of examples processed so far reaches a further 100,
\* and the count on the line is the number of examples processed so far.
C7_ProgressEvery100 ==
    \A k \in 1..Len(steps) :
        /\ steps[k].printed # <<>> <=>
               ProcessedUpTo(steps, k) \div 100 > ProcessedUpTo(steps, k - 1) \div 100
        /\ steps[k].printed # <<>> =>
               steps[k].printed[1].batch = ProcessedUpTo(steps, k)

\* C8: the loss on every progress line is the mean of the batch losses since
\* the previous progress line of the epoch (or the epoch start): their sum
\* divided by the number of those batches; the accumulator is zero right
\* after each progress line.
C8_MeanLoss ==
    \A k \in Printing(steps) :
        /\ steps[k].printed[1].loss =
               FormatFixed(Rat(IntervalSum(steps, k), IntervalCount(steps, k)), 7)
        /\ (pc = "batch" /\ k = Len(steps)) => running_loss = 0

\* C9 as stated: the first loss reported in epoch n+1 includes the batch
\* losses of epoch n that no progress line of epoch n reported.
C9_CarriedLoss ==
    \A k \in Printing(steps) :
        (epoch > 1 /\ LastLineBefore(steps, k) = 0) =>
            steps[k].printed[1].loss =
                FormatFixed(Rat(unreported + IntervalSum(steps, k), LossDivisor), 7)

\* C9 as amended: the batch losses after the last progress line of epoch n
\* are not reported in epoch n and are dropped when epoch n+1 begins: the
\* accumulator holds, and every progress line reports, only batch losses of
\* the current epoch, those since its previous progress line or its start.
C9_LossDropped ==
    /\ \A k \in Printing(steps) :
           steps[k].printed[1].loss =
               FormatFixed(Rat(IntervalSum(steps, k), LossDivisor), 7)
    /\ pc = "batch" => running_loss = TailSum(steps)

C9_Witness ==
    /\ pc = "batch"
    /\ epoch = 2
    /\ unreported > 0
    /\ Printing(steps) # {}

\* C10: the loss recorded for epoch n is the value of the last progress line
\* printed in epochs 1..n: the value of the epoch's last progress line if it
\* printed one, else the loss recorded for epoch n-1, and 0.0 for n = 1; the
\* batch losses after the last progress line enter no recorded loss.
C10_RecordedLoss ==
    (pc \in {"epoch", "done"} /\ epoch >= 1) =>
        LET k == LastLine(steps)
        IN /\ Len(total_loss) = epoch
           /\ IF k > 0
              THEN /\ RatEq(total_loss[epoch], Rat(IntervalSum(steps, k), LossDivisor))
                   /\ FormatFixed(total_loss[epoch], 7) = steps[k].printed[1].loss
              ELSE IF epoch > 1
              THEN RatEq(total_loss[epoch], total_loss[epoch - 1])
              ELSE RatEq(total_loss[epoch], Rat(0, 1))

C10_Witness ==
    /\ pc = "done"
    /\ epochs = 2
    /\ LastLine(steps) > 0
    /\ TailSum(steps) > 0
    /\ total_loss[1].num # total_loss[2].num

=============================================================================
